---- MODULE Spec2Model ----
(***************************************************************************)
(* A model of the Pac-Man modules: ScoreManager (ScoreManager.py) and the  *)
(* ghost Pathfinder (PathFinder.py).                                       *)
(*                                                                         *)
(* The two components share no state.  Each has its own specification:     *)
(*   SpecScore     the ScoreManager driven by any sequence of its events   *)
(*   SpecScoreAny  the same, after the fields were assigned directly       *)
(*   SpecPath      one call of a Pathfinder method on a constructed maze   *)
(*   SpecAnimate   one call of animate_ghost, tick by tick                 *)
(*   SpecSimulate  one call of simulate_ghost_path, tick by tick           *)
(***************************************************************************)
EXTENDS Integers, Sequences, FiniteSets, TLC

VARIABLES
    score,              \* ScoreManager.score
    ghost_eaten_combo,  \* ScoreManager.ghost_eaten_combo
    events,             \* history: the ScoreManager methods called so far
    maze,               \* Pathfinder.maze: rows of cells, 0 walkable, 1 wall
    height,             \* Pathfinder.height
    width,              \* Pathfinder.width
    pc,                 \* "idle" after construction, then the method that returned
    args,               \* the arguments of the call that returned
    result,             \* what the call returned
    loop_x,             \* animate_ghost, simulate_ghost_path: local x
    loop_y,             \* animate_ghost, simulate_ghost_path: local y
    loop_direction,     \* animate_ghost, simulate_ghost_path: local direction
    step,               \* the iterations of the for loop completed
    path                \* simulate_ghost_path: path; animate_ghost: visited

scoreVars == <<score, ghost_eaten_combo, events>>
loopVars == <<loop_x, loop_y, loop_direction, step, path>>
pathVars == <<maze, height, width, pc, args, result,
              loop_x, loop_y, loop_direction, step, path>>
vars == <<score, ghost_eaten_combo, events, maze, height, width, pc, args, result,
          loop_x, loop_y, loop_direction, step, path>>

(***************************************************************************)
(* Bounds of the model.                                                    *)
(***************************************************************************)
\* The longest sequence of ScoreManager events explored.
MaxEvents == 6
\* The widest and the highest maze enumerated exhaustively.
MaxW == 2
MaxH == 2
\* The largest max_steps given to animate_ghost and simulate_ghost_path.
MaxSteps == 3

(***************************************************************************)
(* ScoreManager                                                            *)
(***************************************************************************)
PELLET == 10
POWER_PELLET == 50
GHOST_BASE == 100

\* The values test_reset_restores_initial_state and its like assign to the
\* fields directly, plus the neighbours of the initial values.
AnyScore == {0 - 1234, 0 - 1, 0, 1, 1234}
AnyCombo == {0, 1, 2, 4}

\* ScoreManager.__init__
ScoreInit ==
    /\ score = 0
    /\ ghost_eaten_combo = 1
    /\ events = <<>>

\* reset that forgets the combo.
Reset_KeepsCombo ==
    /\ Len(events) < MaxEvents
    /\ score' = 0
    /\ UNCHANGED ghost_eaten_combo
    /\ events' = Append(events, "reset")

\* ScoreManager.reset
Reset ==
    /\ Len(events) < MaxEvents
    /\ score' = 0
    /\ ghost_eaten_combo' = 1
    /\ events' = Append(events, "reset")

\* add_pellet_score that restarts the combo, as a power pellet does.
AddPelletScore_ResetsCombo ==
    /\ Len(events) < MaxEvents
    /\ score' = score + PELLET
    /\ ghost_eaten_combo' = 1
    /\ events' = Append(events, "pellet")

\* add_pellet_score with = in place of +=.
AddPelletScore_Assigns ==
    /\ Len(events) < MaxEvents
    /\ score' = PELLET
    /\ UNCHANGED ghost_eaten_combo
    /\ events' = Append(events, "pellet")

\* ScoreManager.add_pellet_score
AddPelletScore ==
    /\ Len(events) < MaxEvents
    /\ score' = score + PELLET
    /\ UNCHANGED ghost_eaten_combo
    /\ events' = Append(events, "pellet")

\* add_power_pellet_score without the combo reset.
AddPowerPelletScore_KeepsCombo ==
    /\ Len(events) < MaxEvents
    /\ score' = score + POWER_PELLET
    /\ UNCHANGED ghost_eaten_combo
    /\ events' = Append(events, "power")

\* ScoreManager.add_power_pellet_score
AddPowerPelletScore ==
    /\ Len(events) < MaxEvents
    /\ score' = score + POWER_PELLET
    /\ ghost_eaten_combo' = 1
    /\ events' = Append(events, "power")

\* add_ghost_score without the increment of the combo.
AddGhostScore_NoIncrement ==
    /\ Len(events) < MaxEvents
    /\ score' = score + (2 ^ ghost_eaten_combo) * GHOST_BASE
    /\ UNCHANGED ghost_eaten_combo
    /\ events' = Append(events, "ghost")

\* add_ghost_score that increments the combo before it is used.
AddGhostScore_IncrementsFirst ==
    /\ Len(events) < MaxEvents
    /\ score' = score + (2 ^ (ghost_eaten_combo + 1)) * GHOST_BASE
    /\ ghost_eaten_combo' = ghost_eaten_combo + 1
    /\ events' = Append(events, "ghost")

\* ScoreManager.add_ghost_score
AddGhostScore ==
    /\ Len(events) < MaxEvents
    /\ score' = score + (2 ^ ghost_eaten_combo) * GHOST_BASE
    /\ ghost_eaten_combo' = ghost_eaten_combo + 1
    /\ events' = Append(events, "ghost")

\* A test's direct assignment to both fields of a fresh ScoreManager.
SetFields ==
    /\ events = <<>>
    /\ \E s \in AnyScore, c \in AnyCombo :
        /\ score' = s
        /\ ghost_eaten_combo' = c
    /\ events' = Append(events, "set")

(***************************************************************************)
(* Pathfinder                                                              *)
(***************************************************************************)
Direction == {"UP", "DOWN", "LEFT", "RIGHT"}

\* Direction.value
DirValue(d) ==
    CASE d = "UP" -> <<0, 0 - 1>>
      [] d = "DOWN" -> <<0, 1>>
      [] d = "LEFT" -> <<0 - 1, 0>>
      [] d = "RIGHT" -> <<1, 0>>

\* Direction.opposite
Opposite(d) ==
    CASE d = "UP" -> "DOWN"
      [] d = "DOWN" -> "UP"
      [] d = "LEFT" -> "RIGHT"
      [] d = "RIGHT" -> "LEFT"

\* Pathfinder.DIRECTION_PREFERENCE
DIRECTION_PREFERENCE == <<"UP", "LEFT", "DOWN", "RIGHT">>

\* list.index on DIRECTION_PREFERENCE
PreferenceIndex(d) == CHOOSE i \in 1..Len(DIRECTION_PREFERENCE) : DIRECTION_PREFERENCE[i] = d

\* is_valid_tile without the lower bounds: a negative index of a Python list
\* counts from its end, and one below -len is out of range.
is_valid_tile_NoLowerBound(x, y) ==
    IF x >= width \/ y >= height \/ x < 0 - width \/ y < 0 - height
    THEN FALSE
    ELSE maze[((y + height) % height) + 1][((x + width) % width) + 1] = 0

\* Pathfinder.is_valid_tile; maze[y][x] of the code is maze[y + 1][x + 1] here.
is_valid_tile(x, y) ==
    IF x < 0 \/ x >= width \/ y < 0 \/ y >= height
    THEN FALSE
    ELSE maze[y + 1][x + 1] = 0

\* The loop of get_available_exits without the skip of the reverse direction.
RECURSIVE ExitsLoop_KeepsReverse(_, _, _, _, _)
ExitsLoop_KeepsReverse(i, x, y, current_direction, available) ==
    IF i > Len(DIRECTION_PREFERENCE)
    THEN available
    ELSE LET direction == DIRECTION_PREFERENCE[i]
             next_x == x + DirValue(direction)[1]
             next_y == y + DirValue(direction)[2]
         IN IF is_valid_tile(next_x, next_y)
            THEN ExitsLoop_KeepsReverse(i + 1, x, y, current_direction, Append(available, direction))
            ELSE ExitsLoop_KeepsReverse(i + 1, x, y, current_direction, available)

\* The loop of Pathfinder.get_available_exits from the i-th preferred direction on.
RECURSIVE ExitsLoop(_, _, _, _, _)
ExitsLoop(i, x, y, current_direction, available) ==
    IF i > Len(DIRECTION_PREFERENCE)
    THEN available
    ELSE LET direction == DIRECTION_PREFERENCE[i]
             next_x == x + DirValue(direction)[1]
             next_y == y + DirValue(direction)[2]
         IN IF direction = Opposite(current_direction)
            THEN ExitsLoop(i + 1, x, y, current_direction, available)
            ELSE IF is_valid_tile(next_x, next_y)
                 THEN ExitsLoop(i + 1, x, y, current_direction, Append(available, direction))
                 ELSE ExitsLoop(i + 1, x, y, current_direction, available)

\* Pathfinder.get_available_exits
get_available_exits(x, y, current_direction) ==
    ExitsLoop(1, x, y, current_direction, <<>>)

\* Pathfinder.euclidean_distance.  math.dist returns the float square root of
\* this integer; the model keeps the radicand.  The results are only compared
\* (< and ==), and on radicands below 2^52 the correctly rounded square root
\* is strictly increasing, so both comparisons agree with those of the floats.
euclidean_distance(x1, y1, x2, y2) ==
    (x1 - x2) * (x1 - x2) + (y1 - y2) * (y1 - y2)

\* float("inf"): best_distance is <<>> while infinite and <<d>> once finite.
Inf == <<>>
FloatLess(d, best_distance) == best_distance = Inf \/ d < best_distance[1]
FloatEqual(d, best_distance) == best_distance # Inf /\ d = best_distance[1]

\* The loop of choose_direction with <= in place of <: the last of the
\* nearest exits wins.
RECURSIVE BestLoop_LastWins(_, _, _, _, _, _, _, _)
BestLoop_LastWins(i, available_exits, lookahead_x, lookahead_y, target_x, target_y, best_direction, best_distance) ==
    IF i > Len(available_exits)
    THEN best_direction
    ELSE LET direction == available_exits[i]
             test_x == lookahead_x + DirValue(direction)[1]
             test_y == lookahead_y + DirValue(direction)[2]
             distance == euclidean_distance(test_x, test_y, target_x, target_y)
         IN IF FloatLess(distance, best_distance) \/ FloatEqual(distance, best_distance)
            THEN BestLoop_LastWins(i + 1, available_exits, lookahead_x, lookahead_y,
                                   target_x, target_y, direction, <<distance>>)
            ELSE BestLoop_LastWins(i + 1, available_exits, lookahead_x, lookahead_y,
                                   target_x, target_y, best_direction, best_distance)

\* The loop of Pathfinder.choose_direction over available_exits from the i-th on.
RECURSIVE BestLoop(_, _, _, _, _, _, _, _)
BestLoop(i, available_exits, lookahead_x, lookahead_y, target_x, target_y, best_direction, best_distance) ==
    IF i > Len(available_exits)
    THEN best_direction
    ELSE LET direction == available_exits[i]
             test_x == lookahead_x + DirValue(direction)[1]
             test_y == lookahead_y + DirValue(direction)[2]
             distance == euclidean_distance(test_x, test_y, target_x, target_y)
         IN IF FloatLess(distance, best_distance)
            THEN BestLoop(i + 1, available_exits, lookahead_x, lookahead_y,
                          target_x, target_y, direction, <<distance>>)
            ELSE IF FloatEqual(distance, best_distance)
                    /\ PreferenceIndex(direction) < PreferenceIndex(best_direction)
                 THEN BestLoop(i + 1, available_exits, lookahead_x, lookahead_y,
                               target_x, target_y, direction, best_distance)
                 ELSE BestLoop(i + 1, available_exits, lookahead_x, lookahead_y,
                               target_x, target_y, best_direction, best_distance)

\* choose_direction that keeps the heading at a dead end.
choose_direction_NoReverse(ghost_x, ghost_y, current_direction, target_x, target_y) ==
    LET lookahead_x == ghost_x + DirValue(current_direction)[1]
        lookahead_y == ghost_y + DirValue(current_direction)[2]
        available_exits == get_available_exits(lookahead_x, lookahead_y, current_direction)
    IN IF Len(available_exits) = 1
       THEN available_exits[1]
       ELSE IF Len(available_exits) = 0
            THEN current_direction
            ELSE BestLoop(1, available_exits, lookahead_x, lookahead_y,
                          target_x, target_y, "None", Inf)

\* choose_direction that treats a single exit as a dead end (<= 1 for == 0,
\* tested first).
choose_direction_SingleReverses(ghost_x, ghost_y, current_direction, target_x, target_y) ==
    LET lookahead_x == ghost_x + DirValue(current_direction)[1]
        lookahead_y == ghost_y + DirValue(current_direction)[2]
        available_exits == get_available_exits(lookahead_x, lookahead_y, current_direction)
    IN IF Len(available_exits) <= 1
       THEN Opposite(current_direction)
       ELSE BestLoop(1, available_exits, lookahead_x, lookahead_y,
                     target_x, target_y, "None", Inf)

\* Pathfinder.choose_direction
choose_direction(ghost_x, ghost_y, current_direction, target_x, target_y) ==
    LET lookahead_x == ghost_x + DirValue(current_direction)[1]
        lookahead_y == ghost_y + DirValue(current_direction)[2]
        available_exits == get_available_exits(lookahead_x, lookahead_y, current_direction)
    IN IF Len(available_exits) = 1
       THEN available_exits[1]
       ELSE IF Len(available_exits) = 0
            THEN Opposite(current_direction)
            ELSE BestLoop(1, available_exits, lookahead_x, lookahead_y,
                          target_x, target_y, "None", Inf)

\* Pathfinder.get_next_position
get_next_position(x, y, direction) ==
    <<x + DirValue(direction)[1], y + DirValue(direction)[2]>>

(***************************************************************************)
(* The mazes and the inputs explored.                                      *)
(***************************************************************************)
\* Pathfinder.__init__: height and width of a maze.
HeightOf(m) == Len(m)
WidthOf(m) == IF m # <<>> THEN Len(m[1]) ELSE 0

\* The fixture simple_maze of test_pathfinder.py.
simple_maze ==
    << <<1, 1, 1, 1, 1>>,
       <<1, 0, 0, 0, 1>>,
       <<1, 0, 1, 0, 1>>,
       <<1, 0, 0, 0, 1>>,
       <<1, 1, 1, 1, 1>> >>

\* Every rectangular grid of h rows and w columns.
GridsOf(w, h) == [1..h -> [1..w -> {0, 1}]]

\* The empty maze [], and every grid of up to MaxH rows and MaxW columns
\* (rows may be empty: [[]]).
SmallMazes == {<<>>} \cup UNION {GridsOf(w, h) : w \in 0..MaxW, h \in 1..MaxH}

Mazes == SmallMazes \cup {simple_maze}

\* Ghost coordinates along an axis of n tiles: from three tiles before the
\* grid to three tiles after it (the code reads at most two tiles away).
GhostCoords(n) == (0 - 3)..(n + 2)
\* Coordinates from one tile before the grid to one tile after it.
NearCoords(n) == (0 - 1)..n
\* Target coordinates along an axis of n tiles.
TargetCoords(n) == 0..n

\* The (ghost_x, ghost_y, target_x, target_y) of the choose_direction calls:
\* every target for a ghost in or next to the grid, one target for a ghost
\* further out.
ChooseInputs ==
    {<<gx, gy, tx, ty>> : gx \in NearCoords(width), gy \in NearCoords(height),
                          tx \in TargetCoords(width), ty \in TargetCoords(height)}
    \cup {<<gx, gy, 0, 0>> : gx \in GhostCoords(width), gy \in GhostCoords(height)}

\* No driving loop runs: its local variables do not exist.
LoopUnused ==
    /\ loop_x = 0
    /\ loop_y = 0
    /\ loop_direction = "None"
    /\ step = 0
    /\ path = <<>>

\* Pathfinder(maze)
PathInit ==
    /\ maze \in Mazes
    /\ height = HeightOf(maze)
    /\ width = WidthOf(maze)
    /\ pc = "idle"
    /\ args = <<>>
    /\ result = "None"
    /\ LoopUnused

\* One call of choose_direction on the constructed Pathfinder.
ChooseDirection ==
    /\ pc = "idle"
    /\ \E in \in ChooseInputs, d \in Direction :
        /\ args' = [ghost_x |-> in[1], ghost_y |-> in[2], current_direction |-> d,
                    target_x |-> in[3], target_y |-> in[4]]
        /\ result' = choose_direction(in[1], in[2], d, in[3], in[4])
    /\ pc' = "choose_direction"
    /\ UNCHANGED <<maze, height, width>>

\* One call of get_available_exits on the constructed Pathfinder.
GetAvailableExits ==
    /\ pc = "idle"
    /\ \E x \in GhostCoords(width), y \in GhostCoords(height), d \in Direction :
        /\ args' = [x |-> x, y |-> y, current_direction |-> d]
        /\ result' = get_available_exits(x, y, d)
    /\ pc' = "get_available_exits"
    /\ UNCHANGED <<maze, height, width>>

\* One call of is_valid_tile on the constructed Pathfinder.
IsValidTile ==
    /\ pc = "idle"
    /\ \E x \in GhostCoords(width), y \in GhostCoords(height) :
        /\ args' = [x |-> x, y |-> y]
        /\ result' = is_valid_tile(x, y)
    /\ pc' = "is_valid_tile"
    /\ UNCHANGED <<maze, height, width>>

(***************************************************************************)
(* The driving loops: animate_ghost and simulate_ghost_path                *)
(***************************************************************************)
\* Start and target coordinates along an axis of n tiles: the tiles of the
\* grid (tile 0 on an axis without tiles).
LoopCoords(n) == 0..(IF n = 0 THEN 0 ELSE n - 1)

\* The arguments of a call of a driving loop: max_steps is 0 or MaxSteps.
LoopArgs ==
    [ghost_x : LoopCoords(width), ghost_y : LoopCoords(height),
     current_direction : Direction,
     target_x : LoopCoords(width), target_y : LoopCoords(height),
     max_steps : {0, MaxSteps}]

\* animate_ghost is called: x, y = ghost_x, ghost_y; direction =
\* current_direction; visited = [].
AnimateCall ==
    /\ maze \in Mazes
    /\ height = HeightOf(maze)
    /\ width = WidthOf(maze)
    /\ args \in LoopArgs
    /\ loop_x = args.ghost_x
    /\ loop_y = args.ghost_y
    /\ loop_direction = args.current_direction
    /\ step = 0
    /\ path = <<>>
    /\ pc = "animate_ghost"
    /\ result = "None"

\* One iteration of the for loop of animate_ghost: the tile is recorded; at
\* the target the loop breaks; otherwise the next turn is decided, the ghost
\* moves along the current direction and then takes the decided direction.
AnimateTick ==
    /\ pc = "animate_ghost"
    /\ step < args.max_steps
    /\ path' = Append(path, <<loop_x, loop_y>>)
    /\ IF <<loop_x, loop_y>> = <<args.target_x, args.target_y>>
       THEN /\ pc' = "animate_ghost_done"
            /\ UNCHANGED <<loop_x, loop_y, loop_direction, step>>
       ELSE LET next_direction == choose_direction(loop_x, loop_y, loop_direction, args.target_x, args.target_y)
                next == get_next_position(loop_x, loop_y, loop_direction)
            IN /\ loop_x' = next[1]
               /\ loop_y' = next[2]
               /\ loop_direction' = next_direction
               /\ step' = step + 1
               /\ UNCHANGED pc
    /\ UNCHANGED <<maze, height, width, args, result>>

\* range(max_steps) is exhausted: animate_ghost returns None.
AnimateReturn ==
    /\ pc = "animate_ghost"
    /\ step >= args.max_steps
    /\ pc' = "animate_ghost_done"
    /\ UNCHANGED <<maze, height, width, args, result, loop_x, loop_y, loop_direction, step, path>>

\* simulate_ghost_path is called: path = [(ghost_x, ghost_y)]; x, y =
\* ghost_x, ghost_y; direction = current_direction.
SimulateCall ==
    /\ maze \in Mazes
    /\ height = HeightOf(maze)
    /\ width = WidthOf(maze)
    /\ args \in LoopArgs
    /\ loop_x = args.ghost_x
    /\ loop_y = args.ghost_y
    /\ loop_direction = args.current_direction
    /\ step = 0
    /\ path = <<<<args.ghost_x, args.ghost_y>>>>
    /\ pc = "simulate_ghost_path"
    /\ result = "None"

\* An iteration of simulate_ghost_path without the break at the target.
SimulateTick_NoBreak ==
    /\ pc = "simulate_ghost_path"
    /\ step < args.max_steps
    /\ LET decided == choose_direction(loop_x, loop_y, loop_direction, args.target_x, args.target_y)
           next == get_next_position(loop_x, loop_y, decided)
       IN /\ loop_direction' = decided
          /\ loop_x' = next[1]
          /\ loop_y' = next[2]
          /\ path' = Append(path, next)
    /\ step' = step + 1
    /\ UNCHANGED <<maze, height, width, args, result, pc>>

\* One iteration of the for loop of simulate_ghost_path that does not break:
\* direction is assigned the decided direction, the ghost moves along it, and
\* the new tile is appended to the path.
SimulateTick ==
    /\ pc = "simulate_ghost_path"
    /\ step < args.max_steps
    /\ <<loop_x, loop_y>> # <<args.target_x, args.target_y>>
    /\ LET decided == choose_direction(loop_x, loop_y, loop_direction, args.target_x, args.target_y)
           next == get_next_position(loop_x, loop_y, decided)
       IN /\ loop_direction' = decided
          /\ loop_x' = next[1]
          /\ loop_y' = next[2]
          /\ path' = Append(path, next)
    /\ step' = step + 1
    /\ UNCHANGED <<maze, height, width, args, result, pc>>

\* The loop of simulate_ghost_path ends, by the break at the target or with
\* range(max_steps) exhausted, and the path is returned.
SimulateReturn ==
    /\ pc = "simulate_ghost_path"
    /\ \/ step >= args.max_steps
       \/ <<loop_x, loop_y>> = <<args.target_x, args.target_y>>
    /\ pc' = "simulate_ghost_path_done"
    /\ result' = path
    /\ UNCHANGED <<maze, height, width, args, loop_x, loop_y, loop_direction, step, path>>

(***************************************************************************)
(* Specifications                                                          *)
(***************************************************************************)
\* The Pathfinder of a specification about the ScoreManager: never used.
PathUnused ==
    /\ maze = <<>>
    /\ height = 0
    /\ width = 0
    /\ pc = "idle"
    /\ args = <<>>
    /\ result = "None"
    /\ LoopUnused

ScoreNext ==
    \/ (Reset /\ UNCHANGED pathVars)
    \/ (AddPelletScore /\ UNCHANGED pathVars)
    \/ (AddPowerPelletScore /\ UNCHANGED pathVars)
    \/ (AddGhostScore /\ UNCHANGED pathVars)

ScoreAnyNext ==
    \/ ScoreNext
    \/ (SetFields /\ UNCHANGED pathVars)

PathNext ==
    \/ (ChooseDirection /\ UNCHANGED scoreVars /\ UNCHANGED loopVars)
    \/ (GetAvailableExits /\ UNCHANGED scoreVars /\ UNCHANGED loopVars)
    \/ (IsValidTile /\ UNCHANGED scoreVars /\ UNCHANGED loopVars)

AnimateNext ==
    \/ (AnimateTick /\ UNCHANGED scoreVars)
    \/ (AnimateReturn /\ UNCHANGED scoreVars)

SimulateNext ==
    \/ (SimulateTick /\ UNCHANGED scoreVars)
    \/ (SimulateReturn /\ UNCHANGED scoreVars)

\* A fresh ScoreManager; no Pathfinder call is made.
InitScore == ScoreInit /\ PathUnused
\* A constructed Pathfinder; the ScoreManager stays fresh.
InitPath == ScoreInit /\ PathInit

SpecScore == InitScore /\ [][ScoreNext]_vars
SpecScoreAny == InitScore /\ [][ScoreAnyNext]_vars
SpecPath == InitPath /\ [][PathNext]_vars

\* A call of animate_ghost on a constructed Pathfinder.
InitAnimate == ScoreInit /\ AnimateCall
\* A call of simulate_ghost_path on a constructed Pathfinder.
InitSimulate == ScoreInit /\ SimulateCall

SpecAnimate == InitAnimate /\ [][AnimateNext]_vars
SpecSimulate == InitSimulate /\ [][SimulateNext]_vars

(***************************************************************************)
(* Properties of Pathfinder.choose_direction and get_available_exits       *)
(***************************************************************************)
\* A choose_direction call has returned.
Chose == pc = "choose_direction"
\* The lookahead tile of the call that returned.
LookaheadX == args.ghost_x + DirValue(args.current_direction)[1]
LookaheadY == args.ghost_y + DirValue(args.current_direction)[2]
\* The exits at the lookahead tile of the call that returned.
CallExits == get_available_exits(LookaheadX, LookaheadY, args.current_direction)
\* The squared distance to the target of the test tile of exit d.
TestDistance(d) ==
    LET tx == LookaheadX + DirValue(d)[1]
        ty == LookaheadY + DirValue(d)[2]
    IN (tx - args.target_x) * (tx - args.target_x) + (ty - args.target_y) * (ty - args.target_y)
\* The position of d in the order UP, LEFT, DOWN, RIGHT.
Rank(d) == CASE d = "UP" -> 1 [] d = "LEFT" -> 2 [] d = "DOWN" -> 3 [] d = "RIGHT" -> 4
\* (x, y) lies within the grid.
InBounds(x, y) == 0 <= x /\ x < width /\ 0 <= y /\ y < height

\* C1: with two or more exits at the lookahead tile, choose_direction returns
\* an exit whose test tile is nearest to the target, and among the nearest
\* exits the earliest in the order UP, LEFT, DOWN, RIGHT.
C1_NearestExitEarliestOnTie ==
    (Chose /\ Len(CallExits) >= 2) =>
        /\ \E i \in 1..Len(CallExits) : result = CallExits[i]
        /\ \A j \in 1..Len(CallExits) :
            /\ TestDistance(result) <= TestDistance(CallExits[j])
            /\ TestDistance(result) = TestDistance(CallExits[j])
                  => Rank(result) <= Rank(CallExits[j])

\* C1 happens: two exits tie for the nearest test tile, and a third exit is
\* strictly farther.
C1_Witness ==
    /\ Chose
    /\ Len(CallExits) = 3
    /\ \E j \in 1..3 : CallExits[j] # result /\ TestDistance(CallExits[j]) = TestDistance(result)
    /\ \E j \in 1..3 : TestDistance(CallExits[j]) > TestDistance(result)

\* C2: every choose_direction call returns a Direction, and with no exit at
\* the lookahead tile it returns the opposite of the current heading.
C2_DeadEndReverses ==
    Chose =>
        /\ result \in Direction
        /\ CallExits = <<>> => result = Opposite(args.current_direction)

\* C2 happens: a ghost on a walkable tile heads into a walkable tile that has
\* no other way out, and is turned round.
C2_Witness ==
    /\ Chose
    /\ is_valid_tile(args.ghost_x, args.ghost_y)
    /\ is_valid_tile(LookaheadX, LookaheadY)
    /\ CallExits = <<>>
    /\ result = Opposite(args.current_direction)

\* C3: with exactly one exit at the lookahead tile, choose_direction returns
\* that exit, whatever the target.
C3_SingleExitTaken ==
    (Chose /\ Len(CallExits) = 1) => result = CallExits[1]

\* C3 happens: the single exit is a turn, and it leads away from the target
\* (the tile straight ahead of the lookahead tile would be nearer).
C3_Witness ==
    /\ Chose
    /\ Len(CallExits) = 1
    /\ result = CallExits[1]
    /\ result # args.current_direction
    /\ TestDistance(args.current_direction) < TestDistance(result)

\* C4: get_available_exits(x, y, h) holds exactly the headings d other than
\* the opposite of h whose tile (x, y) + d is valid, each once, in the order
\* UP, LEFT, DOWN, RIGHT.
C4_ExitsAreValidNonReverseInOrder ==
    pc = "get_available_exits" =>
        /\ \A d \in Direction :
            (\E i \in 1..Len(result) : result[i] = d)
                <=> /\ d # Opposite(args.current_direction)
                    /\ is_valid_tile(args.x + DirValue(d)[1], args.y + DirValue(d)[2])
        /\ \A i, j \in 1..Len(result) : i < j => Rank(result[i]) < Rank(result[j])

\* C4 happens: the tile behind is valid and is left out, and two or more
\* exits are listed.
C4_Witness ==
    /\ pc = "get_available_exits"
    /\ is_valid_tile(args.x + DirValue(Opposite(args.current_direction))[1],
                     args.y + DirValue(Opposite(args.current_direction))[2])
    /\ Len(result) >= 2

\* The call of the scenario: simple_maze, heading UP, target (3, 3).
ScenarioCall(gx, gy) ==
    /\ Chose
    /\ maze = simple_maze
    /\ args = [ghost_x |-> gx, ghost_y |-> gy, current_direction |-> "UP",
               target_x |-> 3, target_y |-> 3]

\* C5 as stated: on simple_maze the ghost at (2, 2) heading UP with target
\* (3, 3) is returned DOWN, the exit list at the lookahead tile being empty.
C5_Original ==
    ScenarioCall(2, 2) => (CallExits = <<>> /\ result = "DOWN")

\* C5 as amended: on simple_maze with target (3, 3) it is the ghost at (1, 1)
\* heading UP that has no exit at its lookahead tile and is returned DOWN; the
\* ghost at (2, 2) heading UP has the exits LEFT and RIGHT and is returned
\* RIGHT.
C5_Amended ==
    /\ ScenarioCall(1, 1) => (CallExits = <<>> /\ result = "DOWN")
    /\ ScenarioCall(2, 2) => (CallExits = <<"LEFT", "RIGHT">> /\ result = "RIGHT")

\* C5 happens: the dead-end call of the scenario has returned DOWN.
C5_Witness == ScenarioCall(1, 1) /\ result = "DOWN"

\* No tile within two steps of the ghost lies within the grid.
FarOutside ==
    \A dx, dy \in (0 - 2)..2 :
        ((IF dx < 0 THEN 0 - dx ELSE dx) + (IF dy < 0 THEN 0 - dy ELSE dy) <= 2)
            => ~InBounds(args.ghost_x + dx, args.ghost_y + dy)

\* C6 as stated: a call whose ghost position lies outside the grid finds no
\* exit at the lookahead tile and returns the opposite of the heading.
C6_Original ==
    (Chose /\ ~InBounds(args.ghost_x, args.ghost_y)) =>
        (CallExits = <<>> /\ result = Opposite(args.current_direction))

\* C6 as amended: a call whose ghost position lies outside the grid returns a
\* Direction, and when no tile within two steps of the ghost lies within the
\* grid it finds no exit and returns the opposite of the heading.
C6_Amended ==
    (Chose /\ ~InBounds(args.ghost_x, args.ghost_y)) =>
        /\ result \in Direction
        /\ FarOutside => (CallExits = <<>> /\ result = Opposite(args.current_direction))

\* C6 happens: a ghost far outside a maze that has a walkable tile, heading
\* towards the grid, is turned round.
C6_Witness ==
    /\ Chose
    /\ FarOutside
    /\ \E x \in 0..(width - 1), y \in 0..(height - 1) : is_valid_tile(x, y)
    /\ args.ghost_x < 0
    /\ args.current_direction = "RIGHT"
    /\ InBounds(0, args.ghost_y)
    /\ result = "LEFT"

(***************************************************************************)
(* Properties of the ScoreManager                                          *)
(***************************************************************************)
\* The step is a call of method m.
Called(m) == events' = Append(events, m)
\* k calls of add_ghost_score.
GhostRun(k) == [i \in 1..k |-> "ghost"]

\* C7: add_ghost_score adds (2 ^ combo) * 100 for the combo before the call
\* and then raises the combo by one; from the fresh state 1..4 calls give the
\* scores 200, 600, 1400, 3000, the last with combo 5.
C7_GhostScoreDoubles ==
    [][/\ Called("ghost") =>
            /\ score' = score + (2 ^ ghost_eaten_combo) * 100
            /\ ghost_eaten_combo' = ghost_eaten_combo + 1
       /\ \A k \in 1..4 :
            events' = GhostRun(k) =>
                /\ score' = <<200, 600, 1400, 3000>>[k]
                /\ ghost_eaten_combo' = k + 1]_vars

\* C7 happens: four ghosts in a row from the fresh state.
C7_Witness ==
    /\ events = GhostRun(4)
    /\ score = 3000
    /\ ghost_eaten_combo = 5

\* C8: add_power_pellet_score adds 50 and sets the combo to 1 whatever it
\* was, and the add_ghost_score right after it adds 200.
C8_PowerPelletResetsCombo ==
    [][/\ Called("power") => (score' = score + 50 /\ ghost_eaten_combo' = 1)
       /\ (Called("ghost") /\ events # <<>> /\ events[Len(events)] = "power")
            => score' = score + 200]_vars

\* C8 happens: a power pellet eaten at combo 3 or more, then a ghost.
C8_Witness ==
    /\ Len(events) >= 4
    /\ SubSeq(events, Len(events) - 3, Len(events)) = <<"ghost", "ghost", "power", "ghost">>
    /\ ghost_eaten_combo = 2

\* C9: a new ScoreManager has score 0 and combo 1, and so has one on which
\* reset was just called, whatever its fields were.
C9_ResetRestoresInitial ==
    (events = <<>> \/ events[Len(events)] = "reset") =>
        (score = 0 /\ ghost_eaten_combo = 1)

\* C9 happens: reset after the fields were assigned and a ghost was eaten.
C9_Witness ==
    /\ events = <<"set", "ghost", "reset">>
    /\ score = 0
    /\ ghost_eaten_combo = 1

\* C10: the score is a natural number in every state, and every event other
\* than reset makes it strictly greater.
C10_ScoreOnlyGrows ==
    [][/\ score \in Nat
       /\ score' \in Nat
       /\ (Called("pellet") \/ Called("power") \/ Called("ghost")) => score' > score]_vars

\* C10 happens: each of the three scoring events after an earlier score.
C10_Witness ==
    /\ events = <<"ghost", "pellet", "power", "ghost">>
    /\ score = 460

\* The index of the last power pellet or reset among the events, 0 if none.
LastComboReset ==
    LET at == {i \in 1..Len(events) : events[i] \in {"power", "reset"}}
    IN IF at = {} THEN 0 ELSE CHOOSE i \in at : \A j \in at : j <= i
\* The add_ghost_score calls made since then.
GhostsSinceComboReset ==
    Cardinality({i \in (LastComboReset + 1)..Len(events) : events[i] = "ghost"})

\* C11: from a fresh ScoreManager the combo is always 1 plus the number of
\* ghosts eaten since the last power pellet or reset (since construction if
\* there was none), hence never below 1.
C11_ComboCountsGhosts ==
    /\ ghost_eaten_combo = 1 + GhostsSinceComboReset
    /\ ghost_eaten_combo >= 1

\* C11 happens: ghosts eaten before and after a power pellet, a pellet among
\* the later ones.
C11_Witness ==
    /\ events = <<"ghost", "ghost", "power", "ghost", "pellet", "ghost">>
    /\ ghost_eaten_combo = 3

\* C12: add_pellet_score adds 10 to the score and leaves the combo as it was.
C12_PelletKeepsCombo ==
    [][Called("pellet") =>
        (score' = score + 10 /\ ghost_eaten_combo' = ghost_eaten_combo)]_vars

\* C12 happens: a pellet between two ghosts, the second ghost worth 400.
C12_Witness ==
    /\ events = <<"ghost", "pellet", "ghost">>
    /\ score = 610
    /\ ghost_eaten_combo = 3

\* The event sequence of test_mixed_gameplay_sequence and of __main__.
MixedGameplay == <<"pellet", "pellet", "power", "ghost", "ghost", "pellet">>

\* C14: from a fresh ScoreManager the events pellet, pellet, power pellet,
\* ghost, ghost, pellet give the scores 10, 20, 70, 270, 670, 680 and the
\* combos 1, 1, 1, 2, 3, 3.
C14_MixedGameplayScores ==
    \A k \in 1..6 :
        events = SubSeq(MixedGameplay, 1, k) =>
            /\ score = <<10, 20, 70, 270, 670, 680>>[k]
            /\ ghost_eaten_combo = <<1, 1, 1, 2, 3, 3>>[k]

\* C14 happens: the whole sequence has run.
C14_Witness ==
    /\ events = MixedGameplay
    /\ score = 680
    /\ ghost_eaten_combo = 3

(***************************************************************************)
(* Further properties of the Pathfinder calls                              *)
(***************************************************************************)
\* C13: is_valid_tile(x, y) is true exactly when 0 <= x < width,
\* 0 <= y < height and the cell at (x, y) is 0; outside the bounds, on an
\* empty grid too, it returns false.
C13_ValidIffInBoundsAndWalkable ==
    pc = "is_valid_tile" =>
        /\ result \in BOOLEAN
        /\ result <=> (/\ 0 <= args.x /\ args.x < width
                       /\ 0 <= args.y /\ args.y < height
                       /\ maze[args.y + 1][args.x + 1] = 0)

\* C13 happens: x = -1 in a row whose last cell is walkable is not valid.
C13_Witness ==
    /\ pc = "is_valid_tile"
    /\ args.x = 0 - 1
    /\ 0 <= args.y /\ args.y < height
    /\ width >= 1
    /\ maze[args.y + 1][width] = 0
    /\ result = FALSE

\* C16: choose_direction returns an exit of the lookahead tile, or, when and
\* only when there is none, the opposite of the current heading.
C16_NoReverseWhileExitExists ==
    Chose =>
        /\ \/ \E i \in 1..Len(CallExits) : result = CallExits[i]
           \/ result = Opposite(args.current_direction)
        /\ result = Opposite(args.current_direction) => CallExits = <<>>

\* C16 happens: the ghost stands on a walkable tile that is nearer to the
\* target than the test tile of any exit, and is still sent on through an exit.
C16_Witness ==
    /\ Chose
    /\ is_valid_tile(args.ghost_x, args.ghost_y)
    /\ is_valid_tile(LookaheadX, LookaheadY)
    /\ CallExits # <<>>
    /\ \A i \in 1..Len(CallExits) :
          TestDistance(Opposite(args.current_direction)) < TestDistance(CallExits[i])
    /\ result # Opposite(args.current_direction)

(***************************************************************************)
(* Properties of the driving loops                                         *)
(***************************************************************************)
\* The start tile of the call is walkable, and so is the tile next to it
\* along the initial heading.
StartsOnTrack ==
    /\ is_valid_tile(args.ghost_x, args.ghost_y)
    /\ is_valid_tile(args.ghost_x + DirValue(args.current_direction)[1],
                     args.ghost_y + DirValue(args.current_direction)[2])
\* The step is a tick of a driving loop in which a decision was made.
Ticked == step' = step + 1
\* The ghost of the running loop stands on the target.
AtTarget == <<loop_x, loop_y>> = <<args.target_x, args.target_y>>

\* C15: in every tick of a driving loop the ghost moves along the heading it
\* held before choose_direction was called, and holds the returned heading
\* after the tick.
C15_MovesAlongPreviousHeading ==
    [][Ticked =>
        /\ <<loop_x', loop_y'>> = <<loop_x + DirValue(loop_direction)[1],
                                    loop_y + DirValue(loop_direction)[2]>>
        /\ loop_direction' = choose_direction(loop_x, loop_y, loop_direction,
                                              args.target_x, args.target_y)]_vars

\* C17: under animate_ghost, from a walkable start tile whose neighbour along
\* the initial heading is walkable, the ghost always stands on a walkable tile
\* and the tile next to it along its heading is walkable.
C17_AnimateStaysOnTrack ==
    StartsOnTrack =>
        /\ is_valid_tile(loop_x, loop_y)
        /\ is_valid_tile(loop_x + DirValue(loop_direction)[1],
                         loop_y + DirValue(loop_direction)[2])

\* C17 happens: after two or more ticks from such a start the ghost heads
\* opposite to its initial heading, away from the tile it started on.
C17_Witness ==
    /\ StartsOnTrack
    /\ step >= 2
    /\ loop_direction = Opposite(args.current_direction)
    /\ <<loop_x, loop_y>> # <<args.ghost_x, args.ghost_y>>

\* C18: from a walkable start tile whose neighbour along the initial heading
\* is walkable, every position of the path of simulate_ghost_path is a valid
\* tile.
C18_PathStaysWalkable ==
    StartsOnTrack => \A i \in 1..Len(path) : is_valid_tile(path[i][1], path[i][2])

\* What holds in every state of a simulate_ghost_path call: the decisions
\* made are within max_steps, and the path is as long as they allow.
SimulateBounded ==
    /\ step <= args.max_steps
    /\ Len(path) = step + 1
    /\ Len(path) <= args.max_steps + 1
    /\ path[1] = <<args.ghost_x, args.ghost_y>>
    /\ \A i \in 1..(Len(path) - 1) : path[i] # <<args.target_x, args.target_y>>
    /\ pc = "simulate_ghost_path_done" => result = path

\* C19: simulate_ghost_path makes at most max_steps decisions, each of which
\* uses up one of them, and returns; its path has at most max_steps + 1
\* positions and begins with the start; at the target no decision or move is
\* made, so the target is at most the last position of the path.
C19_SimulateTerminates ==
    [][/\ SimulateBounded
       /\ SimulateBounded'
       /\ pc' = "simulate_ghost_path" => step' = step + 1
       /\ AtTarget => (step' = step /\ path' = path /\ pc' = "simulate_ghost_path_done")]_vars

\* C19 happens: the target was reached, and the path returned, with steps
\* left.
C19_Witness ==
    /\ pc = "simulate_ghost_path_done"
    /\ Len(result) >= 3
    /\ result[Len(result)] = <<args.target_x, args.target_y>>
    /\ step < args.max_steps

====
